---- MODULE Spec2Model ----
(***************************************************************************)
(* TreeWalker (src/lib.rs): a lazy pre-order walk of a directory tree.     *)
(*                                                                         *)
(* The file system is the environment.  It is a finite tree of directory   *)
(* entries 0..MaxNodes; entry 0 is "/", the only path without a parent.    *)
(* Entries are numbered in the order a listing reports them: the children  *)
(* of a directory are listed by increasing number, and the numbering is    *)
(* the pre-order one, so that every ordered tree occurs exactly once.      *)
(* Each entry carries the failure the platform reports for it: its         *)
(* metadata cannot be read, it cannot be listed, or its listing yields an  *)
(* error item after some good items.  The file system does not change      *)
(* while the walker runs: the failure of an entry is drawn when a platform *)
(* call first meets the entry and stays as drawn from then on.  The parent *)
(* directory and the siblings of the start entry are met by new() alone;   *)
(* their failures are drawn there and kept in the record of its calls.     *)
(***************************************************************************)
EXTENDS Integers, Sequences, FiniteSets, TLC

MaxNodes == 4     \* entries besides "/"
MaxNone == 2      \* next() calls recorded after the walk has ended

Nodes == 0..MaxNodes
NoEntry == 0 - 1

VARIABLES
    fs,           \* the file system: parent, isDir, fault, twin
    start,        \* the path given to TreeWalker::new
    pc,           \* "new" before construction, then "Ok", "Err" or "Panic"
    ctor,         \* what TreeWalker::new did
    stack,        \* TreeWalker.stack, top of the stack last
    fatal_error,  \* TreeWalker.fatal_error
    log           \* the next() calls so far, oldest first: what each returned,
                  \* the stack and the flag it left, the platform calls it made

vars == <<fs, start, pc, ctor, stack, fatal_error, log>>

(***************************************************************************)
(* The file system                                                         *)
(***************************************************************************)
RECURSIVE Anc(_, _)
\* the proper ancestors of entry n under the parent map p
Anc(p, n) == IF n = 0 THEN {} ELSE {p[n]} \cup Anc(p, p[n])

\* p numbers the entries in pre-order: an entry hangs below its predecessor
\* or below one of the predecessor's ancestors
IsShape(p) ==
    \A n \in 1..MaxNodes : p[n] < n /\ (n > 1 => p[n] \in {n - 1} \cup Anc(p, n - 1))

Shapes == {p \in [1..MaxNodes -> Nodes] : IsShape(p)}

\* a file has no children
DirMaps(p) == {d \in [Nodes -> BOOLEAN] : d[0] /\ \A n \in 1..MaxNodes : d[p[n]]}

RECURSIVE KidsUpTo(_, _, _)
KidsUpTo(p, d, n) ==
    IF n = 0 THEN <<>>
    ELSE IF p[n] = d THEN Append(KidsUpTo(p, d, n - 1), n)
    ELSE KidsUpTo(p, d, n - 1)

\* the children of d in the order a listing of d reports them
Kids(f, d) == KidsUpTo(f.parent, d, MaxNodes)

KidSet(p, d) == {n \in 1..MaxNodes : p[n] = d}

\* d and everything beneath it
SubtreeOf(p, d) == {d} \cup {n \in 1..MaxNodes : d \in Anc(p, n)}
Subtree(f, d) == SubtreeOf(f.parent, d)

\* (st_dev, st_ino) of an entry: the two hard links of fs.twin share one inode
Ino(f, n) == IF f.twin # <<>> /\ n = f.twin[2] THEN f.twin[1] ELSE n

\* the failures of an entry: none, metadata unreadable, listing refused, or an
\* error item after `at` good items of the listing.  Unmet: no platform call
\* has met the entry yet.  Readable: its metadata has been read, it has not
\* been listed yet.
NoFault == [k |-> "none", at |-> 0]
MetaFault == [k |-> "meta", at |-> 0]
ListFault == [k |-> "list", at |-> 0]
Unmet == [k |-> "unmet", at |-> 0]
Readable == [k |-> "readable", at |-> 0]
EnumFaults(p, n) == {[k |-> "enum", at |-> j] : j \in 0..Cardinality(KidSet(p, n))}
ListingFaults(f, n) ==
    IF f.isDir[n] THEN {NoFault, ListFault} \cup EnumFaults(f.parent, n) ELSE {NoFault}

\* what the failure of entry n can turn out to be when a call meets it
Fix(f, n) ==
    IF f.fault[n] = Unmet THEN {MetaFault} \cup ListingFaults(f, n)
    ELSE IF f.fault[n] = Readable THEN ListingFaults(f, n)
    ELSE {f.fault[n]}

\* hard links: only files have them, and new() compares identities only with
\* the start entry's and only among the children of one directory
TwinsOf(p, d, s) ==
    {<<>>} \cup {<<a, b>> \in Nodes \X Nodes :
                    /\ 0 < a /\ a < b /\ s \in {a, b}
                    /\ ~d[a] /\ ~d[b] /\ p[a] = p[b]}

(***************************************************************************)
(* The platform calls                                                      *)
(***************************************************************************)
Min(a, b) == IF a <= b THEN a ELSE b

\* std::fs::metadata and DirEntry::metadata: the entry's type and identity
Metadata(f, n) ==
    [ok |-> f.fault[n].k # "meta", is_dir |-> f.isDir[n], ino |-> Ino(f, n)]

\* the items of a successful listing of d: its children in listing order,
\* with an error item (NoEntry) after errPos of them when enumeration fails
Items(f, d) ==
    LET kids == Kids(f, d)
        e == Min(f.fault[d].at, Len(kids))
    IN  IF f.fault[d].k = "enum"
        THEN SubSeq(kids, 1, e) \o <<NoEntry>> \o SubSeq(kids, e + 1, Len(kids))
        ELSE kids

\* std::fs::read_dir: fails on a non-directory and on an unlistable directory
ReadDir(f, d) ==
    IF ~f.isDir[d] \/ f.fault[d].k = "list"
    THEN [ok |-> FALSE, items |-> <<>>]
    ELSE [ok |-> TRUE, items |-> Items(f, d)]

(***************************************************************************)
(* cd_to_parent and absolute_path                                          *)
(***************************************************************************)
\* What the unchecked write of cd_to_parent can do to a path that has a
\* parent: it writes through a pointer taken from a shared reference into
\* the third word of a PathBuf, whose layout Rust does not fix.  The word is
\* the length (the path becomes its parent), or the write is not seen (the
\* path stays as it is), or it hits the buffer pointer and the process dies.
UBOutcomes == {"parent", "unchanged", "crash"}

\* cd_to_parent: the directory new() goes on to list; NoEntry when the
\* process does not survive.  "/" has no parent and is returned untouched.
CdToParent(f, s, ub) ==
    IF s = 0 THEN 0
    ELSE IF ub = "parent" THEN f.parent[s]
    ELSE IF ub = "unchanged" THEN s
    ELSE NoEntry

\* absolute_path: current_dir() and absolutize() are unwrapped with expect
EnvOutcomes == {"ok", "no_cwd", "no_abs"}
AbsolutePathPanics(env) == env # "ok"

(***************************************************************************)
(* TreeWalker::new                                                         *)
(***************************************************************************)
\* one platform call: what was called, on which entry, and whether it succeeded
Call(op, on, ok) == [op |-> op, on |-> on, ok |-> ok]

\* every item passes for the start entry
SameFile_Any(item_md, start_md) == TRUE

\* the identity test of the scan (st_dev and st_ino both equal)
SameFile(item_md, start_md) == item_md.ino = start_md.ino

RECURSIVE FindStart_Skip(_, _, _, _, _)
\* an item whose metadata cannot be read is skipped instead of returned
FindStart_Skip(f, items, i, start_md, calls) ==
    IF i > Len(items) THEN [res |-> "Ok", why |-> "ok", stack |-> <<>>, ops |-> calls]
    ELSE IF items[i] = NoEntry
    THEN [res |-> "Err", why |-> "item", stack |-> <<>>,
          ops |-> Append(calls, Call("item", NoEntry, FALSE))]
    ELSE LET item_md == Metadata(f, items[i])
             calls2 == calls \o <<Call("item", items[i], TRUE),
                                  Call("metadata", items[i], item_md.ok)>>
         IN  IF item_md.ok /\ SameFile(item_md, start_md)
             THEN [res |-> "Ok", why |-> "ok", stack |-> <<items[i]>>, ops |-> calls2]
             ELSE FindStart_Skip(f, items, i + 1, start_md, calls2)

RECURSIVE FindStart(_, _, _, _, _)
\* the for loop of new() from item i on; calls holds the platform calls made so
\* far.  The ? operators leave on the first error item and on the first
\* unreadable entry; the loop breaks on the first match.
FindStart(f, items, i, start_md, calls) ==
    IF i > Len(items) THEN [res |-> "Ok", why |-> "ok", stack |-> <<>>, ops |-> calls]
    ELSE IF items[i] = NoEntry
    THEN [res |-> "Err", why |-> "item", stack |-> <<>>,
          ops |-> Append(calls, Call("item", NoEntry, FALSE))]
    ELSE LET item_md == Metadata(f, items[i])
             calls2 == calls \o <<Call("item", items[i], TRUE),
                                  Call("metadata", items[i], item_md.ok)>>
         IN  IF ~item_md.ok
             THEN [res |-> "Err", why |-> "item_metadata", stack |-> <<>>, ops |-> calls2]
             ELSE IF SameFile(item_md, start_md)
                  THEN [res |-> "Ok", why |-> "ok", stack |-> <<items[i]>>, ops |-> calls2]
                  ELSE FindStart(f, items, i + 1, start_md, calls2)

\* the assertion is left out
SeedAssertion_Off(stk) == TRUE

\* only more than one entry is refused
SeedAssertion_AtMostOne(stk) == Len(stk) <= 1

\* assert_eq!(walker.stack.len(), 1)
SeedAssertion(stk) == Len(stk) = 1

\* TreeWalker::new(start): res is Ok (a walker with this stack), Err (the
\* error is returned) or Panic; why names the step that ended construction,
\* dir the directory that was listed, ops the platform calls made
NewWalker(f, s, env, ub) ==
    LET start_md == Metadata(f, s)
        dir == CdToParent(f, s, ub)
        call1 == <<Call("metadata", s, start_md.ok)>>
        none == [res |-> "Err", why |-> "start_metadata", stack |-> <<>>,
                 dir |-> NoEntry, ops |-> call1]
    IN  IF ~start_md.ok THEN none
        ELSE IF AbsolutePathPanics(env) THEN [none EXCEPT !.res = "Panic", !.why = env]
        ELSE IF dir = NoEntry THEN [none EXCEPT !.res = "Panic", !.why = "crash"]
        ELSE LET parent_dir == ReadDir(f, dir)
                 call2 == Append(call1, Call("read_dir", dir, parent_dir.ok))
                 scan == FindStart(f, parent_dir.items, 1, start_md, call2)
             IN  IF ~parent_dir.ok
                 THEN [none EXCEPT !.why = "read_dir", !.dir = dir, !.ops = call2]
                 ELSE IF scan.res = "Err"
                 THEN [none EXCEPT !.why = scan.why, !.dir = dir, !.ops = scan.ops]
                 ELSE IF ~SeedAssertion(scan.stack)
                 THEN [res |-> "Panic", why |-> "assert", stack |-> <<>>,
                       dir |-> dir, ops |-> scan.ops]
                 ELSE [res |-> "Ok", why |-> "ok", stack |-> scan.stack,
                       dir |-> dir, ops |-> scan.ops]

(***************************************************************************)
(* TreeWalker::next                                                        *)
(***************************************************************************)
None == [kind |-> "None", entry |-> NoEntry, why |-> "none"]
SomeOk(e) == [kind |-> "Ok", entry |-> e, why |-> "none"]
SomeErr(e, why) == [kind |-> "Err", entry |-> e, why |-> why]

RECURSIVE Collect_ReadsChildren(_, _, _, _)
\* the metadata of every child is read while the listing is enumerated
Collect_ReadsChildren(items, i, temp_stack, calls) ==
    IF i > Len(items) THEN [ok |-> TRUE, temp_stack |-> temp_stack, ops |-> calls]
    ELSE IF items[i] = NoEntry
    THEN [ok |-> FALSE, temp_stack |-> temp_stack,
          ops |-> Append(calls, Call("item", NoEntry, FALSE))]
    ELSE Collect_ReadsChildren(items, i + 1, Append(temp_stack, items[i]),
                 calls \o <<Call("item", items[i], TRUE), Call("metadata", items[i], TRUE)>>)

RECURSIVE Collect(_, _, _, _)
\* the for loop over the listing: the children pushed on temp_stack, up to the
\* first error item
Collect(items, i, temp_stack, calls) ==
    IF i > Len(items) THEN [ok |-> TRUE, temp_stack |-> temp_stack, ops |-> calls]
    ELSE IF items[i] = NoEntry
    THEN [ok |-> FALSE, temp_stack |-> temp_stack,
          ops |-> Append(calls, Call("item", NoEntry, FALSE))]
    ELSE Collect(items, i + 1, Append(temp_stack, items[i]),
                 Append(calls, Call("item", items[i], TRUE)))

\* the children go below the pending entries instead of on top of them
PushAll_Bottom(stk, temp_stack) == temp_stack \o stk

\* the children are pushed in listing order, without the temporary stack
PushAll_NoReverse(stk, temp_stack) == stk \o temp_stack

\* the first listed child is left on the temporary stack
PushAll_LeaveOne(stk, temp_stack) ==
    IF temp_stack = <<>> THEN stk
    ELSE stk \o [i \in 1..(Len(temp_stack) - 1) |-> temp_stack[Len(temp_stack) + 1 - i]]

\* the temporary stack is read, not drained: the last listed child is pushed
\* once more
PushAll_Again(stk, temp_stack) ==
    IF temp_stack = <<>> THEN stk
    ELSE Append(stk \o [i \in 1..Len(temp_stack) |-> temp_stack[Len(temp_stack) + 1 - i]],
                temp_stack[Len(temp_stack)])

RECURSIVE PushAll(_, _)
\* while let Some(entry) = temp_stack.pop() { self.stack.push(entry) }
PushAll(stk, temp_stack) ==
    IF temp_stack = <<>> THEN stk
    ELSE PushAll(Append(stk, temp_stack[Len(temp_stack)]),
                 SubSeq(temp_stack, 1, Len(temp_stack) - 1))

\* the flag is left as it was
FlagKept(fe) == fe

\* the flag is set
FlagSet(fe) == TRUE

\* the value fatal_error gets on each error path
FlagOnMetadataError(fe) == TRUE
FlagOnReadDirError(fe) == FALSE
FlagOnItemError(fe) == TRUE

\* the flag is cleared when the end of the walk is reported
Finished_ClearFlag(stk, fe) == [stack |-> stk, fatal |-> FALSE, ret |-> None, ops |-> <<>>]

\* a call that yields nothing: the walker is left as it is
Finished(stk, fe) == [stack |-> stk, fatal |-> fe, ret |-> None, ops |-> <<>>]

\* the children enumerated before an error item are pushed
Visit_KeepPartial(f, entry, stk, fe) ==
    LET metadata == Metadata(f, entry)
        call1 == <<Call("metadata", entry, metadata.ok)>>
        dir == ReadDir(f, entry)
        call2 == Append(call1, Call("read_dir", entry, dir.ok))
        got == Collect(dir.items, 1, <<>>, call2)
    IN  IF ~metadata.ok
        THEN [stack |-> stk, fatal |-> FlagOnMetadataError(fe),
              ret |-> SomeErr(entry, "metadata"), ops |-> call1]
        ELSE IF ~metadata.is_dir
        THEN [stack |-> stk, fatal |-> fe, ret |-> SomeOk(entry), ops |-> call1]
        ELSE IF ~dir.ok
        THEN [stack |-> stk, fatal |-> FlagOnReadDirError(fe),
              ret |-> SomeErr(entry, "read_dir"), ops |-> call2]
        ELSE [stack |-> PushAll(stk, got.temp_stack),
              fatal |-> IF got.ok THEN fe ELSE FlagOnItemError(fe),
              ret |-> IF got.ok THEN SomeOk(entry) ELSE SomeErr(entry, "item"),
              ops |-> got.ops]

\* the entry is listed before its type is looked at
Visit_ListFirst(f, entry, stk, fe) ==
    LET metadata == Metadata(f, entry)
        call1 == <<Call("metadata", entry, metadata.ok)>>
        dir == ReadDir(f, entry)
        call2 == Append(call1, Call("read_dir", entry, dir.ok))
        got == Collect(dir.items, 1, <<>>, call2)
    IN  IF ~metadata.ok
        THEN [stack |-> stk, fatal |-> FlagOnMetadataError(fe),
              ret |-> SomeErr(entry, "metadata"), ops |-> call1]
        ELSE IF ~dir.ok
        THEN [stack |-> stk, fatal |-> FlagOnReadDirError(fe),
              ret |-> IF metadata.is_dir THEN SomeErr(entry, "read_dir") ELSE SomeOk(entry),
              ops |-> call2]
        ELSE IF ~got.ok
        THEN [stack |-> stk, fatal |-> FlagOnItemError(fe),
              ret |-> SomeErr(entry, "item"), ops |-> got.ops]
        ELSE [stack |-> PushAll(stk, got.temp_stack), fatal |-> fe,
              ret |-> SomeOk(entry), ops |-> got.ops]

\* the body of `if let Some(entry) = self.stack.pop()`, stk being the stack
\* after the pop
Visit(f, entry, stk, fe) ==
    LET metadata == Metadata(f, entry)
        call1 == <<Call("metadata", entry, metadata.ok)>>
        dir == ReadDir(f, entry)
        call2 == Append(call1, Call("read_dir", entry, dir.ok))
        got == Collect(dir.items, 1, <<>>, call2)
    IN  IF ~metadata.ok
        THEN [stack |-> stk, fatal |-> FlagOnMetadataError(fe),
              ret |-> SomeErr(entry, "metadata"), ops |-> call1]
        ELSE IF ~metadata.is_dir
        THEN [stack |-> stk, fatal |-> fe, ret |-> SomeOk(entry), ops |-> call1]
        ELSE IF ~dir.ok
        THEN [stack |-> stk, fatal |-> FlagOnReadDirError(fe),
              ret |-> SomeErr(entry, "read_dir"), ops |-> call2]
        ELSE IF ~got.ok
        THEN [stack |-> stk, fatal |-> FlagOnItemError(fe),
              ret |-> SomeErr(entry, "item"), ops |-> got.ops]
        ELSE [stack |-> PushAll(stk, got.temp_stack), fatal |-> fe,
              ret |-> SomeOk(entry), ops |-> got.ops]

\* the entry is read where it lies: nothing is popped when its metadata is
\* unreadable and the flag is not consulted
NextStep_Peek(f, stk, fe) ==
    IF stk = <<>> THEN [stack |-> stk, fatal |-> fe, ret |-> None, ops |-> <<>>]
    ELSE IF ~Metadata(f, stk[Len(stk)]).ok
    THEN [stack |-> stk, fatal |-> TRUE, ret |-> SomeErr(stk[Len(stk)], "metadata"),
          ops |-> <<Call("metadata", stk[Len(stk)], FALSE)>>]
    ELSE Visit(f, stk[Len(stk)], SubSeq(stk, 1, Len(stk) - 1), fe)

\* the top entry is visited and left on the stack
NextStep_NoPop(f, stk, fe) ==
    IF fe THEN Finished(stk, fe)
    ELSE IF stk = <<>> THEN Finished(stk, fe)
    ELSE Visit(f, stk[Len(stk)], stk, fe)

\* the flag is not consulted: entries still pending are visited after a
\* fatal error
NextStep_NoGuard(f, stk, fe) ==
    IF stk = <<>> THEN Finished(stk, fe)
    ELSE Visit(f, stk[Len(stk)], SubSeq(stk, 1, Len(stk) - 1), fe)

\* the oldest pending entry is taken, not the newest
NextStep_Bottom(f, stk, fe) ==
    IF fe THEN Finished(stk, fe)
    ELSE IF stk = <<>> THEN Finished(stk, fe)
    ELSE Visit(f, stk[1], SubSeq(stk, 2, Len(stk)), fe)

\* TreeWalker::next on a walker with stack stk and flag fe
NextStep(f, stk, fe) ==
    IF fe THEN Finished(stk, fe)
    ELSE IF stk = <<>> THEN Finished(stk, fe)
    ELSE Visit(f, stk[Len(stk)], SubSeq(stk, 1, Len(stk) - 1), fe)

(***************************************************************************)
(* The state machine                                                       *)
(***************************************************************************)
Init ==
    /\ \E p \in Shapes :
          \E d \in DirMaps(p) :
             \E s \in Nodes :
                \E t \in TwinsOf(p, d, s) :
                   /\ fs = [parent |-> p, isDir |-> d, twin |-> t,
                            fault |-> [n \in Nodes |-> Unmet]]
                   /\ start = s
    /\ pc = "new"
    /\ ctor = [res |-> "none", why |-> "none", stack |-> <<>>, dir |-> NoEntry,
               ops |-> <<>>]
    /\ stack = <<>>
    /\ fatal_error = FALSE
    /\ log = <<>>

\* the file system as new() meets it: the start entry fails as so says, the
\* directory that is listed as po says, and of its children those in bad have
\* unreadable metadata
Present(f, s, dir, so, po, bad) ==
    [f EXCEPT !.fault =
        [n \in Nodes |->
            IF n = s /\ so = MetaFault THEN MetaFault
            ELSE IF n = dir THEN po
            ELSE IF n \in bad THEN MetaFault
            ELSE IF n = s \/ n \in KidSet(f.parent, dir) THEN Readable
            ELSE Unmet]]

\* the entries of the stack have had their metadata read
Seeded(f, stk) ==
    [f EXCEPT !.fault = [n \in Nodes |->
        IF \E i \in DOMAIN stk : stk[i] = n THEN Readable ELSE Unmet]]

\* let walker = TreeWalker::new(start)
new ==
    /\ pc = "new"
    /\ \E env \in EnvOutcomes, ub \in UBOutcomes, so \in {MetaFault, Readable} :
          LET dir == CdToParent(fs, start, ub)
              kids == IF dir = NoEntry THEN {} ELSE KidSet(fs.parent, dir)
          IN  \E po \in (IF dir = NoEntry THEN {NoFault} ELSE ListingFaults(fs, dir)),
                 bad \in SUBSET (kids \ {start}) :
                 LET r == NewWalker(Present(fs, start, dir, so, po, bad), start, env, ub)
                 IN  /\ pc' = r.res
                     /\ ctor' = r
                     /\ stack' = r.stack
                     /\ fs' = Seeded(fs, r.stack)
    /\ fatal_error' = FALSE
    /\ UNCHANGED <<start, log>>

NoneCount == Cardinality({i \in DOMAIN log : log[i].ret.kind = "None"})

\* no walk takes more calls than there are entries
MaxCalls == MaxNodes + 1 + MaxNone

\* the file system with the failure of the entry on top of the stack drawn
Meet(f, stk) ==
    IF stk = <<>> THEN {f}
    ELSE {[f EXCEPT !.fault[stk[Len(stk)]] = x] : x \in Fix(f, stk[Len(stk)])}

\* walker.next(); a call that meets no entry fixes no failure
next ==
    /\ pc = "Ok"
    /\ NoneCount < MaxNone
    /\ Len(log) < MaxCalls
    /\ \E g \in Meet(fs, stack) :
          LET r == NextStep(g, stack, fatal_error)
          IN  /\ stack' = r.stack
              /\ fatal_error' = r.fatal
              /\ log' = Append(log, r)
              /\ fs' = IF r.ops = <<>> THEN fs ELSE g
    /\ UNCHANGED <<start, pc, ctor>>

Next == new \/ next

Spec == Init /\ [][Next]_vars

\* the caller keeps calling next()
FairSpec == Spec /\ WF_vars(next)

\* no platform call is answered for an entry whose failure is not drawn
MetBeforeUse ==
    \A i \in DOMAIN log : \A j \in DOMAIN log[i].ops :
        log[i].ops[j].op \in {"metadata", "read_dir"} =>
            fs.fault[log[i].ops[j].on].k \notin {"unmet", "readable"}

TypeOK ==
    /\ pc \in {"new", "Ok", "Err", "Panic"}
    /\ stack \in Seq(Nodes)
    /\ fatal_error \in BOOLEAN
    /\ \A i \in DOMAIN log : log[i].ret.kind \in {"Ok", "Err", "None"}

(***************************************************************************)
(* Reading the log                                                         *)
(***************************************************************************)
Last(q) == q[Len(q)]

\* the walker a call found: the stack and the flag before call i
StackBefore(i) == IF i = 1 THEN ctor.stack ELSE log[i - 1].stack
FlagBefore(i) == IF i = 1 THEN FALSE ELSE log[i - 1].fatal

\* the calls that yielded a success value, and the entries they yielded
OkCalls == {i \in DOMAIN log : log[i].ret.kind = "Ok"}
ErrCalls == {i \in DOMAIN log : log[i].ret.kind = "Err"}
Yielded == {log[i].ret.entry : i \in OkCalls}

\* the walk is over: the latest call returned None
Done == pc = "Ok" /\ log # <<>> /\ Last(log).ret.kind = "None"

\* the entry new() pushed
Seed == ctor.stack[1]

\* a is listed before b in the listing of their common parent
ListedBefore(a, b) ==
    /\ a # 0 /\ b # 0 /\ fs.parent[a] = fs.parent[b]
    /\ LET kids == Kids(fs, fs.parent[a])
       IN  \E x, y \in DOMAIN kids : x < y /\ kids[x] = a /\ kids[y] = b

(***************************************************************************)
(* C1  Pre-order.  For every directory D yielded by call i, every yielded  *)
(* entry beneath D is yielded by a later call than D, and by an earlier    *)
(* call than any yielded entry of the subtree of a later sibling of D.     *)
(***************************************************************************)
C1_PreOrder ==
    \A i \in OkCalls : \A j \in OkCalls :
        LET D == log[i].ret.entry
            x == log[j].ret.entry
        IN  (fs.isDir[D] /\ x \in Subtree(fs, D) \ {D}) =>
              /\ i < j
              /\ \A k \in OkCalls :
                    (\E E \in Nodes : ListedBefore(D, E) /\ log[k].ret.entry \in Subtree(fs, E))
                        => j < k

\* a directory, an entry beneath it and a later sibling have all been yielded
C1_Witness ==
    \E i, j, k \in OkCalls :
        /\ log[j].ret.entry \in Subtree(fs, log[i].ret.entry) \ {log[i].ret.entry}
        /\ ListedBefore(log[i].ret.entry, log[k].ret.entry)
        /\ i < j /\ j < k

(***************************************************************************)
(* C4  Sibling order.  Two yielded children of one directory are yielded   *)
(* in the order in which the listing of that directory reports them.       *)
(***************************************************************************)
C4_SiblingOrder ==
    \A i \in OkCalls : \A j \in OkCalls :
        ListedBefore(log[i].ret.entry, log[j].ret.entry) => i < j

\* two children of one directory have been yielded
C4_Witness ==
    \E i, j \in OkCalls : ListedBefore(log[i].ret.entry, log[j].ret.entry)

(***************************************************************************)
(* C2  Completeness without duplicates, as claimed: when the walk is over  *)
(* and the fatal-error flag is not set, the success values are the start   *)
(* entry and every entry beneath it, each exactly once.  The start entry   *)
(* is taken to be the entry new() pushed for the start path; which entry   *)
(* that is, is the matter of C12.                                          *)
(***************************************************************************)
NoDuplicates ==
    \A i \in OkCalls : \A j \in OkCalls : log[i].ret.entry = log[j].ret.entry => i = j

C3_FatalLatch ==
    \A i \in DOMAIN log :
        /\ (~FlagBefore(i) /\ StackBefore(i) # <<>>
                /\ fs.fault[Last(StackBefore(i))] = MetaFault)
              => (log[i].ret.kind = "Err" /\ log[i].fatal)
        /\ FlagBefore(i) =>
              /\ log[i].ret = None
              /\ log[i].stack = StackBefore(i)
              /\ log[i].fatal

\* after a metadata failure, a call returned None with entries still pending
C3_Witness ==
    /\ Done /\ fatal_error /\ stack # <<>>
    /\ \E i \in ErrCalls : fs.fault[log[i].ret.entry] = MetaFault

(***************************************************************************)
(* C5  Listing failure is non-fatal, as claimed: a call that pops a        *)
(* directory whose listing fails returns an error and leaves the flag      *)
(* false, and when the walk is over every entry that was pending on the    *)
(* stack at that moment has been yielded.                                  *)
(***************************************************************************)
\* call i popped a readable directory that could not be listed
ListingFailed(i) ==
    /\ ~FlagBefore(i) /\ StackBefore(i) # <<>>
    /\ fs.fault[Last(StackBefore(i))] = ListFault

PendingAfter(i) == {log[i].stack[x] : x \in DOMAIN log[i].stack}

C5_Original ==
    \A i \in DOMAIN log : ListingFailed(i) =>
        /\ log[i].ret.kind = "Err" /\ ~log[i].fatal
        /\ Done => PendingAfter(i) \subseteq Yielded

\* C5 as amended: such a call returns an error, leaves the flag false and
\* takes nothing but the popped directory off the stack; the walk goes on
\* with the entry then on top, and when the walk is over without the flag set
\* every entry that was pending at that moment has been popped by a later
\* call, which yielded it or returned its error.
PoppedAfter(i) == {Last(StackBefore(j)) : j \in {x \in DOMAIN log : x > i /\ log[x].ret.kind # "None"}}

C5_ListingNonFatal ==
    \A i \in DOMAIN log : ListingFailed(i) =>
        /\ log[i].ret.kind = "Err" /\ ~log[i].fatal
        /\ log[i].stack = SubSeq(StackBefore(i), 1, Len(StackBefore(i)) - 1)
        /\ (i < Len(log) /\ log[i].stack # <<>>) =>
              (log[i + 1].ret.kind # "None" /\ log[i + 1].ret.entry = Last(log[i].stack))
        /\ (Done /\ ~fatal_error) => PendingAfter(i) \subseteq PoppedAfter(i)

\* a listing failed with an entry pending, and that entry was yielded later
C5_Witness ==
    \E i \in DOMAIN log :
        /\ ListingFailed(i) /\ log[i].stack # <<>>
        /\ \E j \in OkCalls : j > i /\ log[j].ret.entry \in PendingAfter(i)

(***************************************************************************)
(* C6  Termination.  Whatever the tree and whatever fails, a caller that   *)
(* keeps calling next() on a constructed walker is eventually returned     *)
(* None.                                                                   *)
(***************************************************************************)
C6_Terminates == (pc = "Ok") ~> Done

\* a walk that met a listing failure and yielded entries has ended
C6_Witness ==
    Done /\ OkCalls # {} /\ (\E i \in ErrCalls : log[i].ret.why = "read_dir")

(***************************************************************************)
(* C7  Not restartable.  A call that returns None leaves the stack and the *)
(* flag as they were, and every call after it returns None as well.        *)
(***************************************************************************)
C7_NotRestartable ==
    \A i \in DOMAIN log : log[i].ret.kind = "None" =>
        /\ log[i].stack = StackBefore(i)
        /\ log[i].fatal = FlagBefore(i)
        /\ (FlagBefore(i) \/ StackBefore(i) = <<>>)
        /\ \A j \in DOMAIN log : j > i => log[j].ret.kind = "None"

\* None was returned twice in a row, with the flag set and entries pending
C7_Witness ==
    /\ Len(log) >= 3
    /\ log[Len(log)].ret.kind = "None" /\ log[Len(log) - 1].ret.kind = "None"
    /\ fatal_error /\ stack # <<>>

(***************************************************************************)
(* C8  Starting on a plain file.  A walker constructed on a start path     *)
(* that is not a directory yields one value, the success value for that    *)
(* file (an entry that is not a directory and has the identity of the      *)
(* start path), and every later call returns None.                         *)
(***************************************************************************)
C8_PlainFile ==
    (pc = "Ok" /\ ~fs.isDir[start]) =>
        /\ \A i \in DOMAIN log :
              IF i = 1
              THEN /\ log[i].ret.kind = "Ok"
                   /\ ~fs.isDir[log[i].ret.entry]
                   /\ Ino(fs, log[i].ret.entry) = Ino(fs, start)
              ELSE log[i].ret.kind = "None"
        /\ Len(stack) = (IF log = <<>> THEN 1 ELSE 0)

\* a walk from a plain file has yielded the file and then returned None
C8_Witness == pc = "Ok" /\ ~fs.isDir[start] /\ Len(log) >= 2 /\ Done

(***************************************************************************)
(* C9  The filesystem root is unsupported, as claimed: once new() on the   *)
(* path without a parent has come to list the root, it ends on the         *)
(* assertion on the stack length.                                          *)
(***************************************************************************)
C9_Original ==
    (start = 0 /\ pc # "new" /\ ctor.dir = 0) => (pc = "Panic" /\ ctor.why = "assert")

\* C9 as amended: new() on the path without a parent never returns Ok.  The
\* parent step leaves the path unchanged, so the directory that is listed is
\* the root itself; no item of that listing has the identity of the start
\* path; and unless an earlier step has ended construction (an error of the
\* metadata read, of the listing or of one of its items, which is returned,
\* or a panic in absolute_path), construction ends on the assertion.
C9_RootUnsupported ==
    (start = 0 /\ pc # "new") =>
        /\ pc \in {"Err", "Panic"} /\ stack = <<>>
        /\ ctor.dir \in {0, NoEntry}
        /\ \A i \in DOMAIN ctor.ops :
              ctor.ops[i].op = "item" /\ ctor.ops[i].ok
                  => Ino(fs, ctor.ops[i].on) # Ino(fs, 0)
        /\ (pc = "Err") = (\E i \in DOMAIN ctor.ops : ~ctor.ops[i].ok)
        /\ (pc = "Panic") = (ctor.why \in {"assert", "no_cwd", "no_abs"})
        /\ (ctor.why = "assert") => (ctor.dir = 0 /\ \A i \in DOMAIN ctor.ops : ctor.ops[i].ok)

\* new() on the root listed the root, read the metadata of a child and ended
\* on the assertion
C9_Witness ==
    /\ start = 0 /\ pc = "Panic" /\ ctor.why = "assert"
    /\ \E i \in DOMAIN ctor.ops : ctor.ops[i].op = "metadata" /\ ctor.ops[i].on # 0

(***************************************************************************)
(* C10  Construction aborts on error.  When the listing of the directory   *)
(* new() lists fails, when one of its items is an error, or when the       *)
(* metadata read of one of its children fails, new() returns the error:    *)
(* there is no walker.                                                     *)
(***************************************************************************)
C10_ConstructionAborts ==
    \A i \in DOMAIN ctor.ops :
        (i > 1 /\ ~ctor.ops[i].ok) => (pc = "Err" /\ stack = <<>> /\ i = Len(ctor.ops))

\* new() returned the error of a child's metadata read, after reading the
\* metadata of another child
C10_Witness ==
    /\ pc = "Err" /\ ctor.why = "item_metadata"
    /\ \E i \in DOMAIN ctor.ops : i > 1 /\ ctor.ops[i].op = "metadata" /\ ctor.ops[i].ok

(***************************************************************************)
(* C11  Demand-driven work bound.  Every next() call pops at most one      *)
(* entry and lists at most one directory: the entry it popped, and only    *)
(* when that entry is a directory.  A call that returns None makes no      *)
(* platform call.  No directory is listed before its own entry is popped.  *)
(***************************************************************************)
\* the platform calls of kind op made by call i
OpsOf(i, op) == {j \in DOMAIN log[i].ops : log[i].ops[j].op = op}

\* the stack that call i left holds the stack it found, without its top at most
PopsAtMostOne(i) ==
    LET before == StackBefore(i)
        kept == IF log[i].ret.kind = "None" THEN Len(before) ELSE Len(before) - 1
    IN  /\ kept >= 0
        /\ Len(log[i].stack) >= kept
        /\ SubSeq(log[i].stack, 1, kept) = SubSeq(before, 1, kept)

C11_DemandDriven ==
    \A i \in DOMAIN log :
        /\ PopsAtMostOne(i)
        /\ Cardinality(OpsOf(i, "read_dir")) <= 1
        /\ Cardinality(OpsOf(i, "metadata")) <= 1
        /\ log[i].ret.kind = "None" => log[i].ops = <<>>
        /\ \A j \in DOMAIN log[i].ops :
              /\ log[i].ops[j].op \in {"metadata", "read_dir"} =>
                    (StackBefore(i) # <<>> /\ log[i].ops[j].on = Last(StackBefore(i)))
              /\ log[i].ops[j].op = "read_dir" => fs.isDir[log[i].ops[j].on]
              /\ log[i].ops[j].op = "item" => OpsOf(i, "read_dir") # {}

\* a call popped a directory, listed it and pushed two children, and a later
\* call returned None
C11_Witness ==
    /\ Done
    /\ \E i \in OkCalls :
          /\ OpsOf(i, "read_dir") # {}
          /\ Len(log[i].stack) = Len(StackBefore(i)) + 1

(***************************************************************************)
(* C12  Seed is the start entry.  Whenever new(start) returns Ok, the      *)
(* single entry on the stack is the directory entry of the start path      *)
(* itself, for every listing of the parent, also when another child of     *)
(* the parent has the same (st_dev, st_ino) as the start path.             *)
(***************************************************************************)
C12_SeedIsStart == pc = "Ok" => ctor.stack = <<start>>

(***************************************************************************)
(* C13  Stack top.  Original statement: whenever the flag is false and     *)
(* the stack is not empty, the next call yields the entry on top of the    *)
(* stack as a success value, directory or not.                             *)
(***************************************************************************)
C13_Original ==
    \A i \in DOMAIN log : (~FlagBefore(i) /\ StackBefore(i) # <<>>) =>
        log[i].ret = SomeOk(Last(StackBefore(i)))

\* the step whose failure a call on entry n reports
WhyOf(n) ==
    IF fs.fault[n].k = "meta" THEN "metadata"
    ELSE IF fs.fault[n].k = "list" THEN "read_dir"
    ELSE IF fs.fault[n].k = "enum" THEN "item"
    ELSE "none"

(***************************************************************************)
(* C13  Stack top, amended.  Whenever the flag is false and the stack is   *)
(* not empty, the next call pops the entry on top of the stack and         *)
(* returns that entry as a success value when none of its operations       *)
(* fails, and otherwise the error of its failing operation; it never       *)
(* returns None and never yields another entry.                            *)
(***************************************************************************)
C13_TopIsNext ==
    \A i \in DOMAIN log : (~FlagBefore(i) /\ StackBefore(i) # <<>>) =>
        LET top == Last(StackBefore(i))
        IN  /\ log[i].ret.kind # "None"
            /\ log[i].ret.entry = top
            /\ log[i].ret.kind = "Ok" <=> fs.fault[top] = NoFault
            /\ log[i].ret.kind = "Err" => log[i].ret.why = WhyOf(top)

\* with two entries pending, a call yielded the top, a file; another call
\* returned the error of the directory on top
C13_Witness ==
    /\ \E i \in OkCalls :
          /\ Len(StackBefore(i)) >= 2
          /\ ~fs.isDir[log[i].ret.entry]
    /\ \E i \in ErrCalls : fs.isDir[log[i].ret.entry]

(***************************************************************************)
(* C14  Flag lifecycle.  Across any sequence of next() calls the flag      *)
(* starts false, changes value at most once, and once true is never set    *)
(* back to false: the assignment of false on the listing-failure path      *)
(* never meets a true flag.                                                *)
(***************************************************************************)
\* the calls that changed the flag
FlagChanges == {i \in DOMAIN log : log[i].fatal # FlagBefore(i)}

C14_FlagLifecycle ==
    /\ pc = "new" => ~fatal_error
    /\ (pc = "Ok" /\ log = <<>>) => ~fatal_error
    /\ log # <<>> => fatal_error = Last(log).fatal
    /\ Cardinality(FlagChanges) <= 1
    /\ \A i \in DOMAIN log : FlagBefore(i) => log[i].fatal
    /\ \A i \in DOMAIN log :
          (log[i].ret.kind = "Err" /\ log[i].ret.why = "read_dir") => ~FlagBefore(i)

\* a listing failure left the flag false, a later call set it, and a call
\* after that found it set
C14_Witness ==
    \E i, j, k \in DOMAIN log :
        /\ i < j /\ j < k
        /\ log[i].ret.kind = "Err" /\ log[i].ret.why = "read_dir"
        /\ FlagChanges = {j}
        /\ log[k].fatal

(***************************************************************************)
(* C15  Enumeration failure is fatal and atomic.  When an item of a        *)
(* successfully opened listing is an error, the call yields that error,    *)
(* sets the flag and pushes none of the directory's children, those        *)
(* enumerated before the failing item included; all later calls return     *)
(* None.                                                                   *)
(***************************************************************************)
\* call i popped a directory whose listing opens and then breaks
EnumerationFailed(i) ==
    /\ ~FlagBefore(i) /\ StackBefore(i) # <<>>
    /\ fs.fault[Last(StackBefore(i))].k = "enum"

C15_EnumerationFatal ==
    \A i \in DOMAIN log : EnumerationFailed(i) =>
        LET before == StackBefore(i)
        IN  /\ log[i].ret = SomeErr(Last(before), "item")
            /\ \E j \in DOMAIN log[i].ops :
                  /\ log[i].ops[j] = Call("read_dir", Last(before), TRUE)
                  /\ Last(log[i].ops) = Call("item", NoEntry, FALSE)
            /\ log[i].fatal
            /\ log[i].stack = SubSeq(before, 1, Len(before) - 1)
            /\ \A j \in DOMAIN log : j > i =>
                  /\ log[j].ret = None
                  /\ log[j].ops = <<>>
                  /\ log[j].stack = log[i].stack

\* the listing broke after a good item, with another entry still pending, and
\* a later call returned None
C15_Witness ==
    \E i \in DOMAIN log :
        /\ EnumerationFailed(i)
        /\ \E j \in DOMAIN log[i].ops : log[i].ops[j].op = "item" /\ log[i].ops[j].ok
        /\ log[i].stack # <<>>
        /\ i < Len(log)

(***************************************************************************)
(* C16  Stack size step.  Original statement: on each call that pops an    *)
(* entry the stack length after the call is the length before, minus one,  *)
(* plus the number of children of the popped entry (zero for a             *)
(* non-directory).                                                         *)
(***************************************************************************)
ChildCount(n) == IF fs.isDir[n] THEN Len(Kids(fs, n)) ELSE 0

C16_Original ==
    \A i \in DOMAIN log : log[i].ret.kind # "None" =>
        Len(log[i].stack) = Len(StackBefore(i)) - 1 + ChildCount(Last(StackBefore(i)))

(***************************************************************************)
(* C16  Stack size step, amended.  A call that returns a success value     *)
(* leaves the stack one shorter plus the number of children of the popped  *)
(* entry; a call that returns an error leaves it exactly one shorter,      *)
(* whatever the popped entry's children; a call that returns None leaves   *)
(* it as it was.                                                           *)
(***************************************************************************)
C16_StackStep ==
    \A i \in DOMAIN log :
        LET before == Len(StackBefore(i))
            after == Len(log[i].stack)
        IN  /\ log[i].ret.kind = "Ok" =>
                  after = before - 1 + ChildCount(Last(StackBefore(i)))
            /\ log[i].ret.kind = "Err" => after = before - 1
            /\ log[i].ret.kind = "None" => after = before

\* a success on a directory with two children, an error on a directory that
\* has a child, and a None
C16_Witness ==
    /\ \E i \in OkCalls : ChildCount(log[i].ret.entry) = 2
    /\ \E i \in ErrCalls : ChildCount(log[i].ret.entry) >= 1
    /\ Done

(***************************************************************************)
(* C17  Child metadata failure.  Original statement: when a directory is   *)
(* expanded and the metadata of one of its children cannot be read, the    *)
(* call that pops and expands the directory yields the error and sets the  *)
(* flag.                                                                   *)
(***************************************************************************)
\* call i enumerated entry c as a good item of the listing it opened
Enumerated(i, c) ==
    \E j \in DOMAIN log[i].ops : log[i].ops[j] = Call("item", c, TRUE)

C17_Original ==
    \A i \in DOMAIN log : \A c \in 1..MaxNodes :
        (Enumerated(i, c) /\ fs.fault[c] = MetaFault) =>
            /\ log[i].ret.kind = "Err"
            /\ log[i].fatal

(***************************************************************************)
(* C17  Child metadata failure, amended.  Expanding a directory reads no   *)
(* child's metadata.  The metadata failure of a child is raised by the     *)
(* later call that pops that child: that call yields the error and sets    *)
(* the flag, while the call that expanded the parent returned the parent   *)
(* as a success value and left the flag false.                             *)
(***************************************************************************)
C17_FailureAtPop ==
    /\ \A i \in DOMAIN log : \A c \in 1..MaxNodes :
          Enumerated(i, c) =>
              \A j \in DOMAIN log[i].ops : log[i].ops[j].op = "metadata" => log[i].ops[j].on # c
    /\ \A j \in DOMAIN log :
          (log[j].ret.kind = "Err" /\ log[j].ret.why = "metadata") =>
              LET c == log[j].ret.entry
              IN  /\ c = Last(StackBefore(j))
                  /\ fs.fault[c] = MetaFault
                  /\ log[j].fatal
                  /\ \A i \in DOMAIN log : Enumerated(i, c) =>
                        /\ i < j
                        /\ log[i].ret = SomeOk(fs.parent[c])
                        /\ ~log[i].fatal

\* b was expanded and yielded, then the call that popped b's child returned
\* the child's metadata error
C17_Witness ==
    \E i, j \in DOMAIN log :
        /\ i < j /\ i > 1
        /\ log[j].ret.kind = "Err" /\ log[j].ret.why = "metadata"
        /\ Enumerated(i, log[j].ret.entry)
        /\ log[i].stack # <<log[j].ret.entry>>

(***************************************************************************)
(* C18  Construction postcondition.  Whenever new() returns Ok the stack   *)
(* holds exactly one entry, the seed, and the flag is false; new() never   *)
(* returns Ok with an empty stack or with more than one entry.             *)
(***************************************************************************)
C18_ConstructionPost ==
    /\ pc = "Ok" <=> ctor.res = "Ok"
    /\ ctor.res = "Ok" => Len(ctor.stack) = 1
    /\ (pc = "Ok" /\ log = <<>>) =>
          /\ stack = ctor.stack
          /\ Len(stack) = 1
          /\ ~fatal_error

\* new() returned Ok after scanning a parent that lists two entries with the
\* identity of the start path
C18_Witness ==
    /\ pc = "Ok" /\ log = <<>>
    /\ fs.twin # <<>>
    /\ Len(stack) = 1

(***************************************************************************)
(* C19  Pending stack.  In every reachable state the entries on the stack  *)
(* are pairwise distinct, none of them has been popped or yielded, and     *)
(* every one other than the seed is a child of a directory that has been   *)
(* popped and successfully listed; no entry is pushed or yielded twice.    *)
(***************************************************************************)
\* the calls that popped an entry, and the entries popped so far
PopCalls == {i \in DOMAIN log : log[i].ret.kind # "None"}
Popped == {Last(StackBefore(i)) : i \in PopCalls}

C19_PendingStack ==
    pc = "Ok" =>
        /\ \A x, y \in DOMAIN stack : x # y => stack[x] # stack[y]
        /\ \A x \in DOMAIN stack :
              /\ stack[x] \notin Popped
              /\ stack[x] \notin Yielded
              /\ (log # <<>> \/ stack[x] # Seed) =>
                    /\ stack[x] # Seed
                    /\ \E i \in OkCalls :
                          /\ log[i].ret.entry = fs.parent[stack[x]]
                          /\ Last(StackBefore(i)) = fs.parent[stack[x]]
                          /\ Enumerated(i, stack[x])
        /\ \A i, j \in PopCalls : i # j => Last(StackBefore(i)) # Last(StackBefore(j))
        /\ \A i, j \in DOMAIN log : \A c \in Nodes :
              (Enumerated(i, c) /\ Enumerated(j, c)) => (i = j /\ c # Seed)
        /\ \A i \in DOMAIN log : \A c \in Nodes :
              Enumerated(i, c) =>
                  Cardinality({k \in DOMAIN log[i].ops : log[i].ops[k] = Call("item", c, TRUE)}) = 1

\* after two calls the stack holds children of two different directories
C19_Witness ==
    /\ pc = "Ok"
    /\ Len(log) >= 2
    /\ \E x, y \in DOMAIN stack : fs.parent[stack[x]] # fs.parent[stack[y]]

====
